---------------------------- MODULE Spec2Model ----------------------------
(***************************************************************************)
(* A model of brightwind/analyse/analyse.py: the circular sector binner,   *)
(* the distribution-by-sector tables, mean of monthly means, the long-term *)
(* reference speed, the time-continuity gaps, turbulence intensity by      *)
(* sector, and the fit state and the synthesis of the correlation models   *)
(* exercised by tests/test_correlation.py.                                 *)
(*                                                                         *)
(* Numbers.  Angles are exact: an angle is an integer number of ticks,     *)
(* Unit ticks to the degree, with Unit chosen so that 180/sectors is a     *)
(* whole number of ticks for every sector count of the model.  The code    *)
(* computes in IEEE doubles; the model computes the same quantities in     *)
(* exact arithmetic.  Means are exact rationals <<num, den>>.              *)
(***************************************************************************)
EXTENDS Integers, Sequences, FiniteSets, TLC

(***************************************************************************)
(* Bounds of the model.                                                    *)
(***************************************************************************)
MaxSectors == 6
MaxDistSectors == 3   \* sector counts handed to the distribution tables
MaxSeries == 2        \* records in a (variable, direction) series
MaxRows == 2          \* rows added to the time-indexed data
MaxRepeat == 3        \* how many times the rows of a month are repeated
TicksPerMonth == 2    \* sampled instants per month: midnight of the 1st, and later
MonthsPerYear == 12
MaxReadings == 5      \* rows of the data checked for continuity
HoursPerDay == 24
MaxPoints == 2        \* rows of a model's concurrent dataset
MaxSortSectors == 2   \* direction sectors of a SpeedSort model
MaxInput == 1         \* points of a series handed to synthesize
MaxTISectors == 3     \* sectors handed to get_TI_by_sector
MaxTIRows == 3        \* rows of the data handed to get_TI_by_sector

VARIABLES
    \* --- the sector binner (one direction, one sector count) ---
    sectors,          \* the `sectors` argument
    wdir,             \* the direction handed to map_direction_bin, in ticks
    zero_centred,     \* the flag handed to _get_direction_bin_labels
    direction_bins,   \* result of get_direction_bin_array, <<>> before the call
    bin_labels,       \* result of _get_direction_bin_labels, <<>> before the call
    bin_num           \* result of map_direction_bin, 0 before the call

binVars == <<sectors, wdir, zero_centred, direction_bins, bin_labels, bin_num>>

VARIABLES
    \* --- get_distribution_by_wind_sector / get_freq_table ---
    arg_sectors,          \* the caller's `sectors` argument
    direction_bin_array,  \* the caller's direction_bin_array, None or a sequence
    series,               \* the records: [var |-> .., dir |-> ..], NaN for missing
    dist                  \* the last call's locals and result, NoCall before it

distVars == <<arg_sectors, direction_bin_array, series, dist>>

VARIABLES
    \* --- mean_of_monthly_means / calc_lt_ref_speed ---
    df,       \* the data: rows [ts |-> .., val |-> ..], index increasing
    added,    \* rows added to the initial data so far
    momm,     \* the last mean_of_monthly_means(df): [called, value]
    rep,      \* the repetition applied to df: [month, times, before]
    lt        \* the last calc_lt_ref_speed call: arguments, locals and outcome

mommVars == <<df, added, momm, rep, lt>>

VARIABLES
    \* --- get_time_continuity_gaps ---
    readings,  \* the data: rows [ts |-> hours, allna |-> every value missing]
    gaps       \* the last get_time_continuity_gaps call: locals and outcome

gapVars == <<readings, gaps>>

VARIABLES
    \* --- a correlation model (Correl.*) ---
    variant,   \* which model class
    points,    \* its concurrent dataset: pairs <<ref_spd, target_spd>>
    model,     \* [state |-> "unfit" | "fit", params |-> ..]
    last       \* the last operation called on it and its error, "" if none

corVars == <<variant, points, model, last>>

VARIABLES
    \* --- synthesis from a correlation model ---
    coef,      \* what fitting the concurrent dataset yields, per sector
    earlier,   \* an earlier synthesize call: [called, input, output]
    synth      \* the latest synthesize call: [called, input, output]

synVars == <<coef, earlier, synth>>

VARIABLES
    \* --- get_TI_by_sector ---
    ti_data,       \* the rows of the data: [speed, std, dir]
    ti_sectors,    \* the `sectors` argument
    ti_min_speed,  \* the `min_speed` argument
    ti             \* the last get_TI_by_sector call: [called, kept, binned, rows]

tiVars == <<ti_data, ti_sectors, ti_min_speed, ti>>

vars == <<binVars, distVars, mommVars, gapVars, corVars, synVars, tiVars>>

\* Python's None for an omitted array (a custom array has at least two edges),
\* and NaN, which lies outside the non-negative values of the model.
None == <<>>
NaN == -1
NoCall == [fn |-> "none"]

(***************************************************************************)
(* Arithmetic helpers.                                                     *)
(***************************************************************************)
RECURSIVE GCD(_, _)
GCD(a, b) == IF b = 0 THEN a ELSE GCD(b, a % b)

LCM(a, b) == (a * b) \div GCD(a, b)

\* The least number of ticks per degree that makes 180/n whole for n <= m.
RECURSIVE UnitFor(_)
UnitFor(m) == IF m = 0 THEN 1 ELSE LCM(UnitFor(m - 1), m \div GCD(m, 180))

Unit == UnitFor(MaxSectors)

Deg(x) == x * Unit

Directions == 0 .. Deg(360)

SeqMax(s) == CHOOSE x \in {s[i] : i \in DOMAIN s} :
                 \A y \in {s[i] : i \in DOMAIN s} : y <= x

(***************************************************************************)
(* numpy primitives used by the binner.                                    *)
(***************************************************************************)
\* np.arange(start, stop, step), step > 0: ceil((stop - start) / step) values.
arange(start, stop, step) ==
    LET n == IF stop <= start THEN 0 ELSE (stop - start + step - 1) \div step
    IN  [k \in 1 .. n |-> start + (k - 1) * step]

\* np.digitize([x], bins, right) for increasing bins:
\*   right = False: i with bins[i-1] <= x <  bins[i]
\*   right = True:  i with bins[i-1] <  x <= bins[i]
digitize(x, bins, right) ==
    IF right THEN Cardinality({i \in DOMAIN bins : bins[i] < x})
             ELSE Cardinality({i \in DOMAIN bins : bins[i] <= x})

(***************************************************************************)
(* analyse.py, lines 117-144.                                              *)
(***************************************************************************)
get_direction_bin_array_NoHalfOffset(n) ==
    <<0>> \o arange(Deg(360) \div n, Deg(360), Deg(360) \div n) \o <<Deg(360)>>

get_direction_bin_array(n) ==
    LET bin_start == Deg(180) \div n
    IN  <<0>> \o arange(bin_start, Deg(360), Deg(360) \div n) \o <<Deg(360)>>

\* A label '{0}-{1}'.format(lower, upper) is the pair <<lower, upper>>.
\* bins[-2] is bins[Len(bins) - 1] and the 0-based bins[1] is bins[2].
_get_direction_bin_labels_NoWrapLabel(n, bins, zc) ==
    [k \in 1 .. n |-> <<bins[k], bins[k + 1]>>]

_get_direction_bin_labels(n, bins, zc) ==
    [k \in 1 .. n |->
        IF k = 1 /\ zc THEN <<bins[Len(bins) - 1], bins[2]>>
                       ELSE <<bins[k], bins[k + 1]>>]

map_direction_bin_NoWrap(d, bins, n) ==
    digitize(d, bins, d = SeqMax(bins))

map_direction_bin_RightClosed(d, bins, n) ==
    LET b == digitize(d, bins, TRUE)
    IN  IF b = n + 1 \/ b = 0 THEN 1 ELSE b

map_direction_bin(d, bins, n) ==
    LET right   == (d = SeqMax(bins))
        b       == digitize(d, bins, right)
    IN  IF b = n + 1 THEN 1 ELSE b

(***************************************************************************)
(* The sector binner as a state machine: the three functions applied to    *)
(* one (sectors, wdir) input.                                              *)
(***************************************************************************)
TIIdle ==
    /\ ti_data = <<>>
    /\ ti_sectors = 1
    /\ ti_min_speed = 1
    /\ ti = [called |-> FALSE]

DistIdle ==
    /\ arg_sectors = 1
    /\ direction_bin_array = None
    /\ series = <<>>
    /\ dist = NoCall

MommIdle ==
    /\ df = <<>>
    /\ added = 0
    /\ momm = [called |-> FALSE]
    /\ rep = [month |-> 0]
    /\ lt = [called |-> FALSE]

GapIdle ==
    /\ readings = <<>>
    /\ gaps = [called |-> FALSE]

CorIdle ==
    /\ variant = "OrdinaryLeastSquares"
    /\ points = <<>>
    /\ model = [state |-> "unfit", params |-> [populated |-> FALSE]]
    /\ last = [op |-> "", error |-> ""]
    /\ coef = <<[slope |-> 1, offset |-> 1, cutoff |-> 0]>>
    /\ earlier = [called |-> FALSE]
    /\ synth = [called |-> FALSE]

BinInit ==
    /\ TIIdle
    /\ DistIdle
    /\ MommIdle
    /\ GapIdle
    /\ CorIdle
    /\ sectors \in 1 .. MaxSectors
    /\ wdir \in Directions
    /\ zero_centred \in BOOLEAN
    /\ direction_bins = <<>>
    /\ bin_labels = <<>>
    /\ bin_num = 0

GetDirectionBinArray ==
    /\ direction_bins = <<>>
    /\ direction_bins' = get_direction_bin_array(sectors)
    /\ UNCHANGED <<sectors, wdir, zero_centred, bin_labels, bin_num>>
    /\ UNCHANGED <<distVars, mommVars, gapVars, corVars, synVars, tiVars>>

GetDirectionBinLabels ==
    /\ direction_bins # <<>>
    /\ bin_labels = <<>>
    /\ bin_labels' = _get_direction_bin_labels(sectors, direction_bins, zero_centred)
    /\ UNCHANGED <<sectors, wdir, zero_centred, direction_bins, bin_num>>
    /\ UNCHANGED <<distVars, mommVars, gapVars, corVars, synVars, tiVars>>

MapDirectionBin ==
    /\ direction_bins # <<>>
    /\ bin_num = 0
    /\ bin_num' = map_direction_bin(wdir, direction_bins, sectors)
    /\ UNCHANGED <<sectors, wdir, zero_centred, direction_bins, bin_labels>>
    /\ UNCHANGED <<distVars, mommVars, gapVars, corVars, synVars, tiVars>>

BinNext ==
    \/ GetDirectionBinArray
    \/ GetDirectionBinLabels
    \/ MapDirectionBin

SpecBin == BinInit /\ [][BinNext]_vars

(***************************************************************************)
(* C1: for every sector count N >= 1 and every direction d in [0, 360],    *)
(* map_direction_bin(d, get_direction_bin_array(N), N) is a sector id in   *)
(* 1..N, and d = 0 and d = 360 both get sector 1.                          *)
(***************************************************************************)
C1_TotalAndWrap ==
    bin_num # 0 =>
        /\ bin_num \in 1 .. sectors
        /\ (wdir \in {0, Deg(360)} => bin_num = 1)

C1_Witness ==
    /\ bin_num = 1
    /\ wdir = Deg(360)
    /\ sectors > 1

(***************************************************************************)
(* C2 as written: get_direction_bin_array(sectors) returns exactly         *)
(* sectors + 1 values: 0, then 180/sectors, then steps of 360/sectors,     *)
(* and 360 last, strictly increasing.                                      *)
(***************************************************************************)
EdgesShape(E, n) ==
    /\ E[1] = 0
    /\ E[2] * n = Deg(180)
    /\ \A k \in 2 .. Len(E) - 2 : (E[k + 1] - E[k]) * n = Deg(360)
    /\ E[Len(E)] = Deg(360)
    /\ \A k \in 1 .. Len(E) - 1 : E[k] < E[k + 1]

C2_Original ==
    direction_bins # <<>> =>
        /\ Len(direction_bins) = sectors + 1
        /\ EdgesShape(direction_bins, sectors)

(***************************************************************************)
(* C2 amended: get_direction_bin_array(sectors) returns exactly            *)
(* sectors + 2 values: 0, then 180/sectors, then steps of 360/sectors up   *)
(* to 360 - 180/sectors, and 360 last, strictly increasing.                *)
(***************************************************************************)
C2_EdgesAmended ==
    direction_bins # <<>> =>
        /\ Len(direction_bins) = sectors + 2
        /\ EdgesShape(direction_bins, sectors)
        /\ direction_bins[sectors + 1] * sectors = Deg(360) * sectors - Deg(180)

C2_Witness ==
    /\ direction_bins # <<>>
    /\ sectors = 4
    /\ direction_bins = <<0, Deg(45), Deg(135), Deg(225), Deg(315), Deg(360)>>

(***************************************************************************)
(* C3: with the default edges E, a direction with E[i] <= d < E[i+1] for   *)
(* an interior pair (0-based i in 1..N-1) gets sector i+1, and every d in  *)
(* [0, 180/N) and in [360 - 180/N, 360] gets sector 1.                     *)
(***************************************************************************)
C3_RightOpenBins ==
    bin_num # 0 =>
        /\ \A i \in 1 .. sectors - 1 :
              (direction_bins[i + 1] <= wdir /\ wdir < direction_bins[i + 2])
                  => bin_num = i + 1
        /\ wdir * sectors < Deg(180) => bin_num = 1
        /\ wdir * sectors >= Deg(360) * sectors - Deg(180) => bin_num = 1

\* a direction exactly on an interior edge, binned into the sector above it
C3_Witness ==
    /\ bin_num = 3
    /\ sectors >= 3
    /\ wdir = direction_bins[3]

(***************************************************************************)
(* C4: _get_direction_bin_labels returns exactly `sectors` labels, the     *)
(* k-th being edges[k-1]-edges[k], except that when zero-centred the first *)
(* is edges[-2]-edges[1]; and with the default edges and labels every      *)
(* direction lies inside the range named by the label of its sector.       *)
(***************************************************************************)
InLabelRange(d, label) ==
    IF label[1] < label[2] THEN label[1] <= d /\ d < label[2]
                           ELSE d >= label[1] \/ d < label[2]

C4_Labels ==
    bin_labels # <<>> =>
        /\ Len(bin_labels) = sectors
        /\ \A k \in 1 .. sectors :
              bin_labels[k] =
                  IF k = 1 /\ zero_centred
                  THEN <<direction_bins[Len(direction_bins) - 1], direction_bins[2]>>
                  ELSE <<direction_bins[k], direction_bins[k + 1]>>
        /\ (zero_centred /\ bin_num # 0) => InLabelRange(wdir, bin_labels[bin_num])

\* a direction just below 360 counted in sector 1 under the wrap-around label
C4_Witness ==
    /\ bin_labels # <<>>
    /\ zero_centred
    /\ bin_num = 1
    /\ wdir = Deg(359)
    /\ bin_labels[1][1] > bin_labels[1][2]

(***************************************************************************)
(* pandas primitives used by the distribution tables.                      *)
(***************************************************************************)
\* the members of a finite set of integers, in increasing order
RECURSIVE SortedSeq(_)
SortedSeq(S) ==
    IF S = {} THEN <<>>
    ELSE LET m == CHOOSE x \in S : \A y \in S : x <= y
         IN  <<m>> \o SortedSeq(S \ {m})

\* the rational n/d (d > 0) in lowest terms
Rat(n, d) ==
    LET a == IF n < 0 THEN -n ELSE n
        g == GCD(a, d)
    IN  <<n \div g, d \div g>>

RECURSIVE SeqSum(_)
SeqSum(s) == IF s = <<>> THEN 0 ELSE Head(s) + SeqSum(Tail(s))

\* var_bin_array = np.arange(-0.5, 41, 1), in halves: -1, 1, ..., 81
var_bin_array == arange(-1, 82, 2)

\* pd.cut(v, bins, right=False): the 1-based interval of v, NaN outside the bins
cut(v, bins2) ==
    LET b == digitize(2 * v, bins2, FALSE)
    IN  IF b = 0 \/ b = Len(bins2) THEN NaN ELSE b

(***************************************************************************)
(* analyse.py, lines 178-196 and 217-236.                                  *)
(***************************************************************************)
\* lines 180-185 and 219-224
EffectiveSectors_KeepArgument(n, array) == n

EffectiveSectors(n, array) ==
    IF array = None THEN n ELSE Len(array) - 1

EffectiveBins(n, array) ==
    IF array = None THEN get_direction_bin_array(n) ELSE array

ZeroCentered(array) == (array = None)

\* both series after dropna(), joined on the index (join='inner')
InnerJoin(s) == SelectSeq(s, LAMBDA r : r.var # NaN /\ r.dir # NaN)

\* get_binned_direction_series, lines 156-158, over the joined records
get_binned_direction_series(data, n, bins) ==
    [i \in DOMAIN data |-> map_direction_bin(data[i].dir, bins, n)]

\* result.index = labels (line 195), result.columns = labels (line 235):
\* pandas raises ValueError unless there is one label per group.
Relabel(labels, groups) ==
    IF Len(labels) # Len(groups)
    THEN [error |-> "ValueError", table |-> <<>>]
    ELSE [error |-> "",
          table |-> [j \in DOMAIN groups |-> [label |-> labels[j], value |-> groups[j]]]]

get_distribution_by_wind_sector(n0, array, s, method) ==
    LET n      == EffectiveSectors(n0, array)
        bins   == EffectiveBins(n0, array)
        zc     == ZeroCentered(array)
        labels == _get_direction_bin_labels(n, bins, zc)
        data   == InnerJoin(s)
        binned == get_binned_direction_series(data, n, bins)
        keys   == SortedSeq({binned[i] : i \in DOMAIN binned})
        rows(k)   == SelectSeq([i \in DOMAIN data |-> <<binned[i], data[i].var>>],
                               LAMBDA r : r[1] = k)
        agg(k) == IF method = "%frequency"
                  THEN Rat(Len(rows(k)) * 100, Len(data))
                  ELSE Rat(SeqSum([i \in DOMAIN rows(k) |-> rows(k)[i][2]]),
                           Len(rows(k)))
        groups == [j \in DOMAIN keys |-> agg(keys[j])]
    IN  [fn |-> "get_distribution_by_wind_sector", sectors |-> n,
         zero_centered |-> zc, bins |-> bins, labels |-> labels,
         data |-> data, binned |-> binned, result |-> Relabel(labels, groups)]

get_freq_table(n0, array, s, freq_as_percentage) ==
    LET n      == EffectiveSectors(n0, array)
        bins   == EffectiveBins(n0, array)
        zc     == ZeroCentered(array)
        labels == _get_direction_bin_labels(n, bins, zc)
        \* concat(axis=1).dropna(): var, its bin and the direction bin all present
        data   == SelectSeq(InnerJoin(s), LAMBDA r : cut(r.var, var_bin_array) # NaN)
        binned == get_binned_direction_series(data, n, bins)
        keys   == SortedSeq({binned[i] : i \in DOMAIN binned})
        vkeys  == SortedSeq({cut(data[i].var, var_bin_array) : i \in DOMAIN data})
        cnt(v, k) == Cardinality({i \in DOMAIN data :
                        binned[i] = k /\ cut(data[i].var, var_bin_array) = v})
        cell(v, k) == IF freq_as_percentage THEN Rat(cnt(v, k) * 100, Len(data))
                                            ELSE Rat(cnt(v, k), 1)
        groups == [j \in DOMAIN keys |->
                      [r \in DOMAIN vkeys |-> <<vkeys[r], cell(vkeys[r], keys[j])>>]]
    IN  [fn |-> "get_freq_table", sectors |-> n,
         zero_centered |-> zc, bins |-> bins, labels |-> labels,
         data |-> data, binned |-> binned, result |-> Relabel(labels, groups)]

(***************************************************************************)
(* The distribution tables as a state machine: a caller chooses the        *)
(* arguments, builds a series, and calls one of the two functions.         *)
(***************************************************************************)
EdgeGrid == {Deg(0), Deg(90), Deg(180), Deg(360)}

\* custom direction_bin_array values: increasing edges within [0, 360]
CustomArrays == {SortedSeq(S) : S \in {T \in SUBSET EdgeGrid : Cardinality(T) >= 2}}

VarValues == {1, 41}

DirValues == {Deg(0), Deg(100), Deg(360)}

Methods == {"%frequency", "mean"}

BinIdle ==
    /\ sectors = 1
    /\ wdir = 0
    /\ zero_centred = TRUE
    /\ direction_bins = <<>>
    /\ bin_labels = <<>>
    /\ bin_num = 0

DistInit ==
    /\ TIIdle
    /\ BinIdle
    /\ MommIdle
    /\ GapIdle
    /\ CorIdle
    /\ arg_sectors \in 1 .. MaxDistSectors
    /\ direction_bin_array \in {None} \cup CustomArrays
    /\ series = <<>>
    /\ dist = NoCall

AddRecord ==
    /\ dist = NoCall
    /\ Len(series) < MaxSeries
    /\ \E v \in VarValues \cup {NaN}, d \in DirValues \cup {NaN} :
          series' = Append(series, [var |-> v, dir |-> d])
    /\ UNCHANGED <<arg_sectors, direction_bin_array, dist>>
    /\ UNCHANGED <<binVars, mommVars, gapVars, corVars, synVars, tiVars>>

GetDistributionByWindSector ==
    /\ dist = NoCall
    /\ \E method \in Methods :
          dist' = get_distribution_by_wind_sector(arg_sectors, direction_bin_array,
                                                   series, method)
    /\ UNCHANGED <<arg_sectors, direction_bin_array, series>>
    /\ UNCHANGED <<binVars, mommVars, gapVars, corVars, synVars, tiVars>>

GetFreqTable ==
    /\ dist = NoCall
    /\ \E pct \in BOOLEAN :
          dist' = get_freq_table(arg_sectors, direction_bin_array, series, pct)
    /\ UNCHANGED <<arg_sectors, direction_bin_array, series>>
    /\ UNCHANGED <<binVars, mommVars, gapVars, corVars, synVars, tiVars>>

DistNext ==
    \/ AddRecord
    \/ GetDistributionByWindSector
    \/ GetFreqTable

SpecDist == DistInit /\ [][DistNext]_vars

(***************************************************************************)
(* C5: in get_distribution_by_wind_sector and get_freq_table, a custom     *)
(* direction_bin_array makes the caller's `sectors` irrelevant: binning    *)
(* and labelling use len(direction_bin_array) - 1 sectors and plain        *)
(* adjacent-edge labels; without an array the default zero-centred edges   *)
(* and labels are used.                                                    *)
(***************************************************************************)
C5_CustomArrayOverridesSectors ==
    dist.fn # "none" =>
        IF direction_bin_array # None
        THEN LET n == Len(direction_bin_array) - 1
             IN  /\ dist.sectors = n
                 /\ dist.bins = direction_bin_array
                 /\ ~dist.zero_centered
                 /\ Len(dist.labels) = n
                 /\ \A k \in 1 .. n :
                       dist.labels[k] =
                           <<direction_bin_array[k], direction_bin_array[k + 1]>>
                 /\ \A i \in DOMAIN dist.data :
                       dist.binned[i] =
                           map_direction_bin(dist.data[i].dir, direction_bin_array, n)
        ELSE /\ dist.sectors = arg_sectors
             /\ dist.zero_centered
             /\ Len(dist.bins) = arg_sectors + 2
             /\ EdgesShape(dist.bins, arg_sectors)
             /\ Len(dist.labels) = arg_sectors
             /\ dist.labels[1] = <<dist.bins[arg_sectors + 1], dist.bins[2]>>
             /\ \A i \in DOMAIN dist.data :
                   dist.binned[i] =
                       map_direction_bin(dist.data[i].dir, dist.bins, arg_sectors)

\* a custom array of two sectors handed over together with sectors = 3
C5_Witness ==
    /\ dist.fn # "none"
    /\ direction_bin_array = <<Deg(0), Deg(180), Deg(360)>>
    /\ arg_sectors = 3
    /\ dist.sectors = 2
    /\ dist.binned = <<1, 2>>
    /\ dist.result.error = ""

C5_WitnessFreqTable ==
    /\ dist.fn # "none"
    /\ dist.fn = "get_freq_table"
    /\ direction_bin_array # None
    /\ arg_sectors # Len(direction_bin_array) - 1
    /\ dist.result.error = ""

(***************************************************************************)
(* C14: with a custom direction_bin_array of N+1 strictly increasing edges *)
(* within [0, 360], no direction in [0, 360] is wrapped into sector 1: a   *)
(* record is assigned to sector k in 1..N only if its direction lies in    *)
(* [edges[k-1], edges[k]), or equals edges[N] for k = N.                   *)
(***************************************************************************)
C14_NoWrapWithCustomArray ==
    (dist.fn # "none" /\ direction_bin_array # None) =>
        LET E == direction_bin_array
            n == Len(E) - 1
        IN  \A i \in DOMAIN dist.data :
               LET d == dist.data[i].dir
                   k == dist.binned[i]
               IN  k \in 1 .. n =>
                      \/ E[k] <= d /\ d < E[k + 1]
                      \/ k = n /\ d = E[n + 1]

\* what the code does instead: a direction above the last edge is counted
\* in sector 1
C14_AboveLastEdgeGoesToFirst ==
    (dist.fn # "none" /\ direction_bin_array # None) =>
        \A i \in DOMAIN dist.data :
            dist.data[i].dir > SeqMax(direction_bin_array) => dist.binned[i] = 1

(***************************************************************************)
(* C15: for directions within [0, 360], empty sectors included, the call   *)
(* does not fail and get_distribution_by_wind_sector returns one row per   *)
(* sector, get_freq_table one column per sector, in sector order, the k-th *)
(* carrying label k and the aggregate of exactly the records of sector k.  *)
(***************************************************************************)
\* the direction bins groupby / crosstab make groups of, in their order
GroupKeys(binned) == SortedSeq({binned[i] : i \in DOMAIN binned})

C15_OneEntryPerSector ==
    (dist.fn # "none" /\ dist.data # <<>>) =>
        /\ dist.result.error = ""
        /\ Len(dist.result.table) = dist.sectors
        /\ GroupKeys(dist.binned) = [k \in 1 .. dist.sectors |-> k]
        /\ \A k \in 1 .. dist.sectors :
              dist.result.table[k].label = dist.labels[k]

\* what the code does instead: it fails exactly when the groups present are
\* not as many as the labels, and otherwise puts label j on the j-th group
\* present, whichever sector that is
C15_LabelsByPosition ==
    dist.fn # "none" =>
        LET keys == GroupKeys(dist.binned)
        IN  IF Len(keys) # dist.sectors
            THEN dist.result.error = "ValueError"
            ELSE /\ dist.result.error = ""
                 /\ \A j \in DOMAIN keys :
                       dist.result.table[j].label = dist.labels[j]

(***************************************************************************)
(* Time.  A timestamp is a whole number of ticks; the model's calendar     *)
(* samples TicksPerMonth instants of the first day of every month, tick 0  *)
(* being midnight.  A date is the midnight of its day.                     *)
(***************************************************************************)
\* the instant `tick` of the first day of month m (1..12) of year y
T(y, m, tick) == TicksPerMonth * (MonthsPerYear * y + (m - 1)) + tick

\* DatetimeIndex.month
Month(ts) == ((ts \div TicksPerMonth) % MonthsPerYear) + 1

(***************************************************************************)
(* Exact means.  NaN as a rational is <<0, 0>>.                            *)
(***************************************************************************)
NaNRat == <<0, 0>>

RatAdd(a, b) == Rat(a[1] * b[2] + b[1] * a[2], a[2] * b[2])

RatDivInt(a, k) == Rat(a[1], a[2] * k)

RECURSIVE RatSum(_)
RatSum(s) == IF s = <<>> THEN <<0, 1>> ELSE RatAdd(Head(s), RatSum(Tail(s)))

Vals(rows) == [i \in DOMAIN rows |-> rows[i].val]

\* mean() of a column: the mean of its non-missing values, NaN when there is none
Mean(vals) ==
    LET present == SelectSeq(vals, LAMBDA v : v # NaN)
    IN  IF present = <<>> THEN NaNRat ELSE Rat(SeqSum(present), Len(present))

\* mean() of a column of means
RatMean(rs) ==
    LET present == SelectSeq(rs, LAMBDA r : r # NaNRat)
    IN  IF present = <<>> THEN NaNRat ELSE RatDivInt(RatSum(present), Len(present))

(***************************************************************************)
(* analyse.py, lines 37-45: one column of values indexed by timestamp.     *)
(* The value is what .get_value(index=0, col='MOMM') reads.                *)
(***************************************************************************)
mean_of_monthly_means_Pooled(d) == Mean(Vals(d))

mean_of_monthly_means_ByYearMonth(d) ==
    LET keys == SortedSeq({d[i].ts \div TicksPerMonth : i \in DOMAIN d})
    IN  RatMean([j \in DOMAIN keys |->
            Mean(Vals(SelectSeq(d, LAMBDA r : r.ts \div TicksPerMonth = keys[j])))])

mean_of_monthly_means(d) ==
    LET months     == SortedSeq({Month(d[i].ts) : i \in DOMAIN d})
        \* df.groupby(df.index.month).mean(): one row per month present
        monthly_df == [j \in DOMAIN months |->
                          Mean(Vals(SelectSeq(d, LAMBDA r : Month(r.ts) = months[j])))]
    IN  RatMean(monthly_df)

(***************************************************************************)
(* analyse.py, lines 55-73.  An argument is '' (the default), a string     *)
(* whose first 10 characters name the day `ts` and whose remaining         *)
(* characters name the time of day `tail`, or a datetime at instant `ts`.  *)
(***************************************************************************)
EmptyString == [kind |-> "empty", ts |-> 0, tail |-> 0]

IsDateLike(a) == a.kind = "datetime"

Truthy(a) == a.kind # "empty"

\* dt.datetime.strptime(s[:10], "%Y-%m-%d"): the midnight of the day named;
\* a string names a day (ts, its midnight) and may go on with a time of day
\* (tail, in ticks) after its first 10 characters
strptime_first10_WholeString(a) == a.ts + a.tail

strptime_first10(a) == a.ts

\* data.loc[lo:hi, :] on an increasing index: both ends included
Loc(d, lo, hi) == SelectSeq(d, LAMBDA r : lo <= r.ts /\ r.ts <= hi)

Returned(rows, filtered) ==
    [error |-> "", filtered |-> filtered, data |-> rows,
     value |-> mean_of_monthly_means(rows)]

Raised(e) == [error |-> e, filtered |-> FALSE, data |-> <<>>, value |-> NaNRat]

calc_lt_ref_speed(data, date_from, date_to) ==
    IF IsDateLike(date_from) /\ IsDateLike(date_to)
    THEN Returned(Loc(data, date_from.ts, date_to.ts), TRUE)
    ELSE IF Truthy(date_from) /\ Truthy(date_to)
         THEN IF date_from.kind = "str" /\ date_to.kind = "str"
              THEN Returned(Loc(data, strptime_first10(date_from),
                                      strptime_first10(date_to)), TRUE)
              \* a datetime has no [:10]
              ELSE Raised("TypeError")
         ELSE Returned(data, FALSE)

(***************************************************************************)
(* The long-term reference utilities as a state machine: rows are added    *)
(* to the data, then one of the functions is called; the rows of a month   *)
(* may be repeated between two calls of mean_of_monthly_means.             *)
(***************************************************************************)
RowTimes == {T(0, 1, 0), T(0, 1, 1), T(0, 2, 0), T(1, 1, 0)}

RowValues == {1, 3}

\* one row for each calendar month of year 0
FullYear == [m \in 1 .. MonthsPerYear |-> [ts |-> T(0, m, 0), val |-> 1 + (m % 2)]]

DateArgs ==
    {EmptyString}
    \cup {[kind |-> "str", ts |-> t, tail |-> k] :
            t \in {T(0, 1, 0), T(0, 2, 0), T(1, 1, 0)}, k \in {0, 1}}
    \cup {[kind |-> "datetime", ts |-> t, tail |-> 0] : t \in RowTimes}

InsertSorted(d, r) ==
    SelectSeq(d, LAMBDA x : x.ts <= r.ts) \o <<r>> \o SelectSeq(d, LAMBDA x : x.ts > r.ts)

RECURSIVE RepeatRows(_, _, _)
RepeatRows(d, m, n) ==
    IF d = <<>> THEN <<>>
    ELSE (IF Month(Head(d).ts) = m THEN [k \in 1 .. n |-> Head(d)] ELSE <<Head(d)>>)
         \o RepeatRows(Tail(d), m, n)

MommInit ==
    /\ TIIdle
    /\ BinIdle
    /\ DistIdle
    /\ GapIdle
    /\ CorIdle
    /\ df \in {<<>>, FullYear}
    /\ added = 0
    /\ momm = [called |-> FALSE]
    /\ rep = [month |-> 0]
    /\ lt = [called |-> FALSE]

AddRow ==
    /\ added < MaxRows
    /\ ~momm.called /\ ~lt.called /\ rep.month = 0
    /\ \E t \in RowTimes, v \in RowValues \cup {NaN} :
          df' = InsertSorted(df, [ts |-> t, val |-> v])
    /\ added' = added + 1
    /\ UNCHANGED <<momm, rep, lt>>
    /\ UNCHANGED <<binVars, distVars, gapVars, corVars, synVars, tiVars>>

MeanOfMonthlyMeans ==
    /\ ~momm.called /\ ~lt.called
    /\ momm' = [called |-> TRUE, value |-> mean_of_monthly_means(df)]
    /\ UNCHANGED <<df, added, rep, lt>>
    /\ UNCHANGED <<binVars, distVars, gapVars, corVars, synVars, tiVars>>

\* the property test's step: every row of one month present is repeated n times
RepeatMonthRows ==
    /\ momm.called /\ rep.month = 0
    /\ \E m \in {Month(df[i].ts) : i \in DOMAIN df}, n \in 1 .. MaxRepeat :
          /\ df' = RepeatRows(df, m, n)
          /\ rep' = [month |-> m, times |-> n, before |-> momm.value]
    /\ momm' = [called |-> FALSE]
    /\ UNCHANGED <<added, lt>>
    /\ UNCHANGED <<binVars, distVars, gapVars, corVars, synVars, tiVars>>

CalcLtRefSpeed ==
    /\ ~lt.called /\ ~momm.called /\ rep.month = 0
    /\ \E date_from \in DateArgs, date_to \in DateArgs :
          lt' = [called |-> TRUE, date_from |-> date_from, date_to |-> date_to,
                 out |-> calc_lt_ref_speed(df, date_from, date_to)]
    /\ UNCHANGED <<df, added, momm, rep>>
    /\ UNCHANGED <<binVars, distVars, gapVars, corVars, synVars, tiVars>>

MommNext ==
    \/ AddRow
    \/ MeanOfMonthlyMeans
    \/ RepeatMonthRows
    \/ CalcLtRefSpeed

SpecMomm == MommInit /\ [][MommNext]_vars

(***************************************************************************)
(* C6: repeating all rows of a calendar month present in the data N times  *)
(* (N >= 1) leaves mean_of_monthly_means unchanged.                        *)
(***************************************************************************)
C6_RepeatedMonthSameMean ==
    (rep.month # 0 /\ momm.called) => momm.value = rep.before

\* two months with different means, one of them tripled: the pooled mean moved
C6_Witness ==
    /\ rep.month # 0
    /\ rep.times = 3
    /\ momm.called
    /\ momm.value # NaNRat
    /\ Cardinality({Month(df[i].ts) : i \in DOMAIN df}) = 2
    /\ Mean(Vals(df)) # momm.value
    /\ Mean(Vals(df)) # Mean(Vals(SelectSeq(df, LAMBDA r : Month(r.ts) # rep.month))
                                   \o <<df[1].val>>)

(***************************************************************************)
(* The sum of the monthly means of the months in S as the fraction         *)
(* MeansNum(d, S) / CountProd(d, S).                                       *)
(***************************************************************************)
DataMonths(d) ==
    {m \in 1 .. MonthsPerYear :
        \E i \in DOMAIN d : Month(d[i].ts) = m /\ d[i].val # NaN}

MonthRows(d, m) == SelectSeq(d, LAMBDA r : Month(r.ts) = m /\ r.val # NaN)

RECURSIVE CountProd(_, _)
CountProd(d, S) ==
    IF S = {} THEN 1
    ELSE LET m == CHOOSE x \in S : TRUE
         IN  Len(MonthRows(d, m)) * CountProd(d, S \ {m})

RECURSIVE MeansNum(_, _)
MeansNum(d, S) ==
    IF S = {} THEN 0
    ELSE LET m == CHOOSE x \in S : TRUE
         IN  SeqSum(Vals(MonthRows(d, m))) * CountProd(d, S \ {m})
             + Len(MonthRows(d, m)) * MeansNum(d, S \ {m})

C7_WitnessFullYear ==
    /\ momm.called
    /\ Cardinality(DataMonths(df)) = 12
    /\ added > 0

(***************************************************************************)
(* C8: calc_lt_ref_speed raises an error, and returns no value, whenever   *)
(* date_from and date_to are both given and no row of the data lies in     *)
(* the requested range.                                                    *)
(***************************************************************************)
C8_RaisesOnEmptyRange ==
    (/\ lt.called
     /\ Truthy(lt.date_from) /\ Truthy(lt.date_to)
     /\ Loc(df, lt.date_from.ts, lt.date_to.ts) = <<>>)
        => lt.out.error # ""

\* what the code does there: it returns NaN
C8_ReturnsNaNOnEmptyRange ==
    (/\ lt.called
     /\ lt.out.error = ""
     /\ lt.out.filtered
     /\ lt.out.data = <<>>)
        => lt.out.value = NaNRat

(***************************************************************************)
(* C16: calc_lt_ref_speed restricts the data to the rows with              *)
(* date_from <= timestamp <= date_to if and only if both are supplied,     *)
(* both date-like or both non-empty strings read from their first 10       *)
(* characters as the midnight of that day; with exactly one of them, or    *)
(* neither, nothing is filtered and the result is the mean of monthly      *)
(* means of the full record, without error.                                *)
(***************************************************************************)
C16_FilterIffBothDates ==
    lt.called =>
        LET f == lt.date_from
            t == lt.date_to
            bothDateLike == f.kind = "datetime" /\ t.kind = "datetime"
            bothStrings  == f.kind = "str" /\ t.kind = "str"
            inRange == SelectSeq(df, LAMBDA r : f.ts <= r.ts /\ r.ts <= t.ts)
        IN  /\ (bothDateLike \/ bothStrings) =>
                  /\ lt.out.error = ""
                  /\ lt.out.filtered
                  /\ lt.out.data = inRange
                  /\ lt.out.value = mean_of_monthly_means(inRange)
            /\ (f.kind = "empty" \/ t.kind = "empty") =>
                  /\ lt.out.error = ""
                  /\ ~lt.out.filtered
                  /\ lt.out.data = df
                  /\ lt.out.value = mean_of_monthly_means(df)
            /\ lt.out.filtered => (bothDateLike \/ bothStrings)

\* two strings, date_to going on after its first 10 characters: the row later
\* on the day date_to names is left out
C16_Witness ==
    /\ lt.called
    /\ lt.date_from = [kind |-> "str", ts |-> T(0, 1, 0), tail |-> 0]
    /\ lt.date_to = [kind |-> "str", ts |-> T(0, 1, 0), tail |-> 1]
    /\ Len(df) = 2
    /\ df[1].ts = T(0, 1, 0)
    /\ df[2].ts = T(0, 1, 1)
    /\ lt.out.filtered
    /\ lt.out.data = <<df[1]>>

\* only date_from supplied, as a date, later than a row: nothing is filtered
C16_WitnessOnlyOne ==
    /\ lt.called
    /\ lt.date_from = [kind |-> "datetime", ts |-> T(0, 2, 0), tail |-> 0]
    /\ lt.date_to = EmptyString
    /\ Len(df) >= 1
    /\ df[1].ts = T(0, 1, 0)
    /\ ~lt.out.filtered
    /\ lt.out.data = df
    /\ lt.out.error = ""

(***************************************************************************)
(* transform._get_data_resolution is not among the sources; the            *)
(* specification calls it infer_resolution(timestamp_index) -> duration,   *)
(* "the data's inferred native resolution".  It is modelled as the most    *)
(* frequent difference between adjacent timestamps, the smallest of the    *)
(* most frequent ones.  Timestamps are whole hours.                        *)
(***************************************************************************)
Diffs(idx) == [i \in 1 .. Len(idx) - 1 |-> idx[i + 1] - idx[i]]

Occurrences(s, x) == Cardinality({i \in DOMAIN s : s[i] = x})

_get_data_resolution(idx) ==
    LET d == Diffs(idx)
    IN  CHOOSE x \in {d[i] : i \in DOMAIN d} :
            \A y \in {d[i] : i \in DOMAIN d} :
                \/ Occurrences(d, x) > Occurrences(d, y)
                \/ (Occurrences(d, x) = Occurrences(d, y) /\ x <= y)

(***************************************************************************)
(* analyse.py, lines 239-252.                                              *)
(***************************************************************************)
\* data.dropna(how='all').index
DropNaAllIndex(d) ==
    LET kept == SelectSeq(d, LAMBDA r : ~r.allna)
    IN  [i \in DOMAIN kept |-> kept[i].ts]

Continuity(idx) ==
    [i \in 1 .. Len(idx) - 1 |->
        [date_from |-> idx[i], date_to |-> idx[i + 1],
         days_lost |-> Rat(idx[i + 1] - idx[i], HoursPerDay)]]

get_time_continuity_gaps_OnlyLonger(d, resolution) ==
    SelectSeq(Continuity(DropNaAllIndex(d)),
              LAMBDA r : r.days_lost[1] * HoursPerDay > resolution * r.days_lost[2])

get_time_continuity_gaps(d, resolution) ==
    SelectSeq(Continuity(DropNaAllIndex(d)),
              LAMBDA r : r.days_lost # Rat(resolution, HoursPerDay))

(***************************************************************************)
(* The continuity check as a state machine: readings are appended, each    *)
(* some hours after the one before, then the gaps are asked for.           *)
(***************************************************************************)
Steps == {1, 2, HoursPerDay + 1}

GapInit ==
    /\ TIIdle
    /\ BinIdle
    /\ DistIdle
    /\ MommIdle
    /\ CorIdle
    /\ readings = <<>>
    /\ gaps = [called |-> FALSE]

AppendReading ==
    /\ ~gaps.called
    /\ Len(readings) < MaxReadings
    /\ \E step \in Steps, na \in BOOLEAN :
          LET t == IF readings = <<>> THEN 0 ELSE readings[Len(readings)].ts + step
          IN  readings' = Append(readings, [ts |-> t, allna |-> na])
    /\ UNCHANGED gaps
    /\ UNCHANGED <<binVars, distVars, mommVars, corVars, synVars, tiVars>>

\* With fewer than two timestamps there is no difference to infer a resolution
\* from, and what _get_data_resolution does then is not specified: the call
\* either raises or returns the empty table.
GetTimeContinuityGaps ==
    /\ ~gaps.called
    /\ LET idx == DropNaAllIndex(readings)
       IN  IF Len(idx) < 2
           THEN \E e \in {"", "Error"} :
                   gaps' = [called |-> TRUE, error |-> e, resolution |-> 0,
                            rows |-> <<>>]
           ELSE gaps' = [called |-> TRUE, error |-> "",
                         resolution |-> _get_data_resolution(idx),
                         rows |-> get_time_continuity_gaps(
                                      readings, _get_data_resolution(idx))]
    /\ UNCHANGED readings
    /\ UNCHANGED <<binVars, distVars, mommVars, corVars, synVars, tiVars>>

GapNext ==
    \/ AppendReading
    \/ GetTimeContinuityGaps

SpecGaps == GapInit /\ [][GapNext]_vars

(***************************************************************************)
(* C9: get_time_continuity_gaps returns exactly one row per pair of        *)
(* consecutive timestamps (of the rows with a non-missing value) whose     *)
(* difference is not the inferred resolution, with Date From, Date To and  *)
(* Days Lost their difference in days; pairs at the resolution are never   *)
(* reported; regular hourly data with one missing day yields exactly one   *)
(* row, with Days Lost greater than 1/24.                                  *)
(***************************************************************************)
KeptTimes == {readings[i].ts : i \in {j \in DOMAIN readings : ~readings[j].allna}}

\* t and u are consecutive among the kept timestamps
Consecutive(t, u) ==
    /\ t \in KeptTimes /\ u \in KeptTimes /\ t < u
    /\ ~\E w \in KeptTimes : t < w /\ w < u

HourlyWithOneMissingDay ==
    LET pairs == {p \in KeptTimes \X KeptTimes : Consecutive(p[1], p[2])}
    IN  /\ Cardinality({p \in pairs : p[2] - p[1] = HoursPerDay + 1}) = 1
        /\ Cardinality({p \in pairs : p[2] - p[1] = 1}) = Cardinality(pairs) - 1
        /\ Cardinality(pairs) >= 3

C9_GapRows ==
    (gaps.called /\ gaps.error = "") =>
        /\ \A j \in DOMAIN gaps.rows :
              LET r == gaps.rows[j]
              IN  /\ Consecutive(r.date_from, r.date_to)
                  /\ r.date_to - r.date_from # gaps.resolution
                  /\ r.days_lost[1] * HoursPerDay
                         = (r.date_to - r.date_from) * r.days_lost[2]
        /\ \A t \in KeptTimes, u \in KeptTimes :
              (Consecutive(t, u) /\ u - t # gaps.resolution) =>
                  Cardinality({j \in DOMAIN gaps.rows :
                      gaps.rows[j].date_from = t /\ gaps.rows[j].date_to = u}) = 1
        /\ HourlyWithOneMissingDay =>
              /\ Len(gaps.rows) = 1
              /\ gaps.rows[1].days_lost[1] * HoursPerDay > gaps.rows[1].days_lost[2]

\* hourly readings with one day missing, reported as the single gap of 25/24 days
C9_Witness ==
    /\ gaps.called
    /\ HourlyWithOneMissingDay
    /\ Len(gaps.rows) = 1
    /\ gaps.rows[1].days_lost = <<HoursPerDay + 1, HoursPerDay>>
    /\ gaps.resolution = 1

\* a reading with every value missing opens a gap between its neighbours
C9_WitnessDroppedRow ==
    /\ gaps.called
    /\ \E i \in DOMAIN readings : readings[i].allna /\ 1 < i /\ i < Len(readings)
    /\ \E j \in DOMAIN gaps.rows :
          gaps.rows[j].date_to - gaps.rows[j].date_from = 2
    /\ \A i \in 1 .. Len(readings) - 1 : readings[i + 1].ts - readings[i].ts = 1

(***************************************************************************)
(* The correlation models (Correl.OrdinaryLeastSquares, ...) are not among *)
(* the sources; tests/test_correlation.py calls them.  Their fit state is  *)
(* modelled from the specification, sections 4.3, 4.4 and 7: a model       *)
(* starts unfit, run() fits it and populates params, and synthesize,       *)
(* predict and get_result_table before run() fail with an unfit-model      *)
(* error.                                                                  *)
(***************************************************************************)
Variants == {"OrdinaryLeastSquares", "OrthogonalLeastSquares",
             "MultipleLinearRegression", "SimpleSpeedRatio", "SpeedSort"}

Speeds == {1, 2}

RECURSIVE SeqsUpTo(_, _)
SeqsUpTo(S, n) ==
    IF n = 0 THEN {<<>>}
    ELSE LET shorter == SeqsUpTo(S, n - 1)
         IN  shorter \cup {Append(q, x) : q \in shorter, x \in S}

\* run(): params as the tests read them
FittedParams(v, pts) ==
    [populated |-> TRUE, num_data_points |-> Len(pts), coef |-> coef]

Fit_StaysUnfit(v, pts) == [state |-> "unfit", params |-> FittedParams(v, pts)]

Fit(v, pts) == [state |-> "fit", params |-> FittedParams(v, pts)]

Queries(v) ==
    {"synthesize", "predict"} \cup (IF v = "SpeedSort" THEN {"get_result_table"} ELSE {})

CorInit ==
    /\ TIIdle
    /\ BinIdle
    /\ DistIdle
    /\ MommIdle
    /\ GapIdle
    /\ variant \in Variants
    /\ points \in SeqsUpTo(Speeds \X Speeds, MaxPoints)
    /\ model = [state |-> "unfit", params |-> [populated |-> FALSE]]
    /\ last = [op |-> "", error |-> ""]
    /\ coef = <<[slope |-> 1, offset |-> 1, cutoff |-> 0]>>
    /\ earlier = [called |-> FALSE]
    /\ synth = [called |-> FALSE]

Run ==
    /\ model' = Fit(variant, points)
    /\ last' = [op |-> "run", error |-> ""]
    /\ UNCHANGED <<variant, points>>
    /\ UNCHANGED <<binVars, distVars, mommVars, gapVars, synVars, tiVars>>

\* synthesize(), predict(), get_result_table()
Query ==
    /\ \E op \in Queries(variant) :
          last' = [op |-> op,
                   error |-> IF model.state = "unfit" THEN "UnfitModelError" ELSE ""]
    /\ UNCHANGED <<variant, points, model>>
    /\ UNCHANGED <<binVars, distVars, mommVars, gapVars, synVars, tiVars>>

CorNext ==
    \/ Run
    \/ Query

SpecCorrel == CorInit /\ [][CorNext]_vars

(***************************************************************************)
(* C10: every correlation model starts unfit; while it is unfit any call   *)
(* of synthesize, predict or get_result_table fails with an unfit-model    *)
(* error and leaves it unfit; only run() takes it from unfit to fit, and   *)
(* populates params; nothing takes a fit model back to unfit.              *)
(***************************************************************************)
C10_FitLifecycle ==
    /\ model.state = "unfit"
    /\ [][/\ (model.state = "unfit" /\ last'.op \in {"synthesize", "predict",
                                                       "get_result_table"})
                => (last'.error = "UnfitModelError" /\ model' = model)
          /\ (model.state = "unfit" /\ model'.state = "fit")
                => (last'.op = "run" /\ model'.params.populated)
          /\ (last'.op = "run" /\ last'.error = "")
                => (model'.state = "fit" /\ model'.params.populated)
          /\ model.state = "fit" => model'.state = "fit"]_vars

\* a query refused on an unfit model
C10_Witness ==
    /\ model.state = "unfit"
    /\ last.op = "get_result_table"
    /\ last.error = "UnfitModelError"

\* a query answered after run()
C10_WitnessFit ==
    /\ model.state = "fit"
    /\ model.params.populated
    /\ last.op = "synthesize"
    /\ last.error = ""

(***************************************************************************)
(* Synthesis from a fit model.  The linear model is the one of analyse.py; *)
(* the models' synthesize() is described by the specification: the linear  *)
(* variants apply slope and offset, SimpleSpeedRatio applies its ratio,    *)
(* SpeedSort picks the point's direction sector with the shared binner,    *)
(* returns 0 for a speed of 0, a value blended towards the origin below    *)
(* the sector's cutoff and the sector's linear model otherwise.            *)
(***************************************************************************)
calc_target_value_by_linear_model(ref_value, slope, offset) ==
    (ref_value * slope) + offset

SectorParams ==
    {[slope |-> 1, offset |-> 1, cutoff |-> 0],
     [slope |-> 2, offset |-> -1, cutoff |-> 3]}

SynthSpeeds == {0, 2}
SynthDirs == {Deg(0), Deg(100)}
SynthPoints == [spd : SynthSpeeds, dir : SynthDirs]

\* the sector's synthesized target value at its cutoff
target_cutoff(p) == calc_target_value_by_linear_model(p.cutoff, p.slope, p.offset)

SpeedSortPoint_NoZeroRule(c, pt) ==
    LET n == Len(c)
        p == c[map_direction_bin(pt.dir, get_direction_bin_array(n), n)]
    IN  IF pt.spd < p.cutoff
        THEN Rat(pt.spd * target_cutoff(p), p.cutoff)
        ELSE Rat(calc_target_value_by_linear_model(pt.spd, p.slope, p.offset), 1)

SpeedSortPoint(c, pt) ==
    LET n == Len(c)
        p == c[map_direction_bin(pt.dir, get_direction_bin_array(n), n)]
    IN  IF pt.spd = 0 THEN Rat(0, 1)
        ELSE IF pt.spd < p.cutoff
        THEN Rat(pt.spd * target_cutoff(p), p.cutoff)
        ELSE Rat(calc_target_value_by_linear_model(pt.spd, p.slope, p.offset), 1)

synthesize(v, params, input) ==
    [i \in DOMAIN input |->
        IF v = "SpeedSort" THEN SpeedSortPoint(params.coef, input[i])
        ELSE IF v = "SimpleSpeedRatio" THEN Rat(params.coef[1].slope * input[i].spd, 1)
        ELSE Rat(calc_target_value_by_linear_model(input[i].spd, params.coef[1].slope,
                                                   params.coef[1].offset), 1)]

\* what a synthesize call leaves of the model it was given
AfterSynthesize_Refit(m) ==
    [m EXCEPT !.params.coef =
        [k \in DOMAIN m.params.coef |->
            [m.params.coef[k] EXCEPT !.offset = m.params.coef[k].offset + 1]]]

AfterSynthesize(m) == m

SynthInit ==
    /\ TIIdle
    /\ BinIdle
    /\ DistIdle
    /\ MommIdle
    /\ GapIdle
    /\ variant \in Variants
    /\ points \in SeqsUpTo({<<1, 2>>}, 1)
    /\ model = [state |-> "unfit", params |-> [populated |-> FALSE]]
    /\ last = [op |-> "", error |-> ""]
    /\ coef \in [1..MaxSortSectors -> SectorParams]
    /\ earlier = [called |-> FALSE]
    /\ synth = [called |-> FALSE]

SynthRun ==
    /\ model' = Fit(variant, points)
    /\ last' = [op |-> "run", error |-> ""]
    /\ UNCHANGED <<variant, points>>
    /\ UNCHANGED <<binVars, distVars, mommVars, gapVars, synVars, tiVars>>

Synthesize ==
    \E input \in SeqsUpTo(SynthPoints, MaxInput) :
        IF model.state = "unfit"
        THEN /\ last' = [op |-> "synthesize", error |-> "UnfitModelError"]
             /\ UNCHANGED <<variant, points, model>>
             /\ UNCHANGED <<binVars, distVars, mommVars, gapVars, synVars, tiVars>>
        ELSE /\ last' = [op |-> "synthesize", error |-> ""]
             /\ synth' = [called |-> TRUE, input |-> input,
                          output |-> synthesize(variant, model.params, input)]
             /\ earlier' \in {earlier, synth}
             /\ model' = AfterSynthesize(model)
             /\ UNCHANGED <<variant, points, coef>>
             /\ UNCHANGED <<binVars, distVars, mommVars, gapVars, tiVars>>

SynthNext ==
    \/ SynthRun
    \/ Synthesize

SpecSynth == SynthInit /\ [][SynthNext]_vars

(***************************************************************************)
(* C11: after SpeedSort.run(), synthesize returns one value per input      *)
(* point, and exactly 0 for every point whose speed is 0, whatever its     *)
(* direction, its sector and the sector's slope, offset and cutoff.        *)
(***************************************************************************)
C11_ZeroSpeedZeroOutput ==
    (variant = "SpeedSort" /\ synth.called) =>
        /\ Len(synth.output) = Len(synth.input)
        /\ \A i \in DOMAIN synth.input :
              synth.input[i].spd = 0 => synth.output[i] = <<0, 1>>

\* a zero speed in a sector whose linear model gives -1 at zero and whose
\* cutoff is above zero
C11_Witness ==
    /\ variant = "SpeedSort"
    /\ synth.called
    /\ \E i \in DOMAIN synth.input :
          /\ synth.input[i] = [spd |-> 0, dir |-> Deg(100)]
          /\ model.params.coef[2] = [slope |-> 2, offset |-> -1, cutoff |-> 3]
          /\ synth.output[i] = <<0, 1>>

\* a zero speed in a sector without a cutoff, whose linear model gives 1
C11_WitnessNoCutoff ==
    /\ variant = "SpeedSort"
    /\ synth.called
    /\ \E i \in DOMAIN synth.input :
          /\ synth.input[i] = [spd |-> 0, dir |-> Deg(0)]
          /\ model.params.coef[1] = [slope |-> 1, offset |-> 1, cutoff |-> 0]
          /\ synth.output[i] = <<0, 1>>

(***************************************************************************)
(* C12: on a fit model synthesize is read-only and repeatable: a call      *)
(* leaves the params and the concurrent dataset as they were and the model *)
(* fit, and two calls with the same input return the same output whatever  *)
(* was synthesized in between.                                             *)
(***************************************************************************)
C12_SynthesizeReadOnly ==
    /\ [][(model.state = "fit" /\ last'.op = "synthesize")
             => /\ model' = model
                /\ points' = points
                /\ model'.state = "fit"]_vars
    /\ []((earlier.called /\ synth.called /\ earlier.input = synth.input)
             => earlier.output = synth.output)

\* the same non-empty input synthesized twice by a SpeedSort model
C12_Witness ==
    /\ variant = "SpeedSort"
    /\ model.state = "fit"
    /\ earlier.called
    /\ synth.called
    /\ earlier.input = synth.input
    /\ Len(synth.input) >= 1
    /\ earlier.output = synth.output

\* calls with different inputs and different outputs on the same fit model
C12_WitnessOtherInput ==
    /\ model.state = "fit"
    /\ earlier.called
    /\ synth.called
    /\ earlier.input # synth.input
    /\ earlier.output # synth.output

(***************************************************************************)
(* analyse.py, lines 318-357 and 384-392: turbulence intensity by          *)
(* direction sector.  Directions are rotated back by half a sector, binned *)
(* on edges 0, 360/sectors, ..., 360, averaged per bin present, and the    *)
(* rows of the result, in their order, are given the zero-centred labels   *)
(* in theirs.                                                              *)
(***************************************************************************)
\* lines 384-392
_get_direction_bin_dict(bins, n) ==
    [i \in 1 .. n |->
        IF i = 1 THEN <<bins[Len(bins) - 1], bins[2]>>
                 ELSE <<bins[i], bins[i + 1]>>]

\* lines 329-330: data[dir] - 360 / (sectors * 2), plus 360 where negative
RotateBack(d, n) ==
    LET r == d - (Deg(360) \div (n * 2))
    IN  IF r < 0 THEN r + Deg(360) ELSE r

\* line 336: np.arange(0, 360 + (360 / sectors), 360 / sectors)
TIDirectionBins(n) == arange(0, Deg(360) + (Deg(360) \div n), Deg(360) \div n)

\* line 352: result['Direction bin'] = new_bins['bins'], row by row on the
\* 0-based indexes both frames have after reset_index()
AssignLabels(keys, direction_row) ==
    [j \in DOMAIN keys |-> IF j \in DOMAIN direction_row THEN direction_row[j] ELSE None]

get_TI_by_sector(data, n, min_speed) ==
    LET present == SelectSeq(data, LAMBDA r : r.speed # NaN /\ r.std # NaN /\ r.dir # NaN)
        kept    == SelectSeq(present, LAMBDA r : r.speed >= min_speed)
        ti_bins == TIDirectionBins(n)
        binned  == [i \in DOMAIN kept |->
                       map_direction_bin(RotateBack(kept[i].dir, n), ti_bins, n)]
        keys    == SortedSeq({binned[i] : i \in DOMAIN binned})
        TI(k)   == LET of == SelectSeq([i \in DOMAIN kept |-> <<binned[i], kept[i]>>],
                                       LAMBDA x : x[1] = k)
                   IN  [i \in DOMAIN of |-> Rat(of[i][2].std, of[i][2].speed)]
        direction_row == _get_direction_bin_dict(get_direction_bin_array(n), n)
        labels  == AssignLabels(keys, direction_row)
    IN  [called |-> TRUE, kept |-> kept, binned |-> binned,
         rows |-> [j \in DOMAIN keys |->
                      [label |-> labels[j],
                       Turbulence_Intensity_Avg |-> RatMean(TI(keys[j])),
                       Turbulence_Intensity_Count |-> Len(TI(keys[j]))]]]

TIDirs == {Deg(0), Deg(100), Deg(200), Deg(300), Deg(360)}

TIRecords ==
    [speed : {1, 2}, std : {1}, dir : TIDirs] \cup {[speed |-> 2, std |-> NaN, dir |-> Deg(0)]}

TIInit ==
    /\ BinIdle
    /\ DistIdle
    /\ MommIdle
    /\ GapIdle
    /\ CorIdle
    /\ ti_data = <<>>
    /\ ti_sectors \in 1 .. MaxTISectors
    /\ ti_min_speed \in {1, 2}
    /\ ti = [called |-> FALSE]

TIAddRecord ==
    /\ ~ti.called
    /\ Len(ti_data) < MaxTIRows
    /\ \E r \in TIRecords : ti_data' = Append(ti_data, r)
    /\ UNCHANGED <<ti_sectors, ti_min_speed, ti>>
    /\ UNCHANGED <<binVars, distVars, mommVars, gapVars, corVars, synVars>>

GetTIBySector ==
    /\ ~ti.called
    /\ ti' = get_TI_by_sector(ti_data, ti_sectors, ti_min_speed)
    /\ UNCHANGED <<ti_data, ti_sectors, ti_min_speed>>
    /\ UNCHANGED <<binVars, distVars, mommVars, gapVars, corVars, synVars>>

TINext ==
    \/ TIAddRecord
    \/ GetTIBySector

SpecTI == TIInit /\ [][TINext]_vars

(***************************************************************************)
(* C13: get_TI_by_sector bins into the zero-centred sectors of the shared  *)
(* binner and labels them accordingly: when every sector has data, a       *)
(* record with direction d in [0, 360) is aggregated into the row whose    *)
(* 'Direction bin' label is that of the zero-centred sector containing d,  *)
(* the sector map_direction_bin assigns to d on                            *)
(* get_direction_bin_array(sectors).                                       *)
(***************************************************************************)
\* the row of the result record i of the kept data is aggregated into
TIRowOf(i) ==
    CHOOSE j \in DOMAIN ti.rows : GroupKeys(ti.binned)[j] = ti.binned[i]

C13_SameSectorsAsBinner ==
    (ti.called /\ Len(ti.rows) = ti_sectors) =>
        LET bins   == get_direction_bin_array(ti_sectors)
            labels == _get_direction_bin_labels(ti_sectors, bins, TRUE)
        IN  \A i \in DOMAIN ti.kept :
               ti.kept[i].dir < Deg(360) =>
                  ti.rows[TIRowOf(i)].label =
                      labels[map_direction_bin(ti.kept[i].dir, bins, ti_sectors)]

\* what the code does instead: the record of shared sector s is aggregated
\* into bin s - 1 (sector 1 into the last bin), and with every sector
\* present that row carries the label of sector s - 1
C13_LabelOfPreviousSector ==
    (ti.called /\ Len(ti.rows) = ti_sectors) =>
        LET bins   == get_direction_bin_array(ti_sectors)
            labels == _get_direction_bin_labels(ti_sectors, bins, TRUE)
        IN  \A i \in DOMAIN ti.kept :
               LET s    == map_direction_bin(ti.kept[i].dir, bins, ti_sectors)
                   prev == IF s = 1 THEN ti_sectors ELSE s - 1
               IN  /\ ti.binned[i] = prev
                   /\ ti.rows[TIRowOf(i)].label = labels[prev]

=============================================================================
